---- MODULE Spec2Model ----
(***************************************************************************)
(* State-machine model of the 21cmFAST backend:                            *)
(*   Spec      successive calls of ComputeIonizedBox (IonisationBox.c),    *)
(*             the excursion-set solver, every step with fresh inputs;     *)
(*   SpecSame  the same calls, every snapshot given the same input grids;  *)
(*   SpecPar   the parallel per-cell loops of IonisationBox.c that watch   *)
(*             for non-finite values;                                      *)
(*   SpecHalo  ComputeHaloBox (HaloBox.c) with its team of threads.        *)
(*                                                                         *)
(* Real-valued grids are held in fixed point: the value 1.0 is Scale.      *)
(* FRACT_FLOAT_ERR and TINY are below one fixed-point unit, so the tests   *)
(* "x > FRACT_FLOAT_ERR" and "x > TINY" read "x > 0".                      *)
(* The density contrast of every cell is 0, so the factors (1 + curr_dens) *)
(* are 1; USE_MINI_HALOS is off in the excursion-set part (curr_fcoll_mini *)
(* is 0) and PHOTON_CONS_TYPE is 0.                                        *)
(***************************************************************************)
EXTENDS Integers, FiniteSets, Sequences, TLC

----------------------------------------------------------------------------
(* Bounds of the model *)

\* number of cells of the lattice (HII_TOT_NUM_PIXELS), on a periodic line
NCells == 2
\* number of smoothing radii returned by setup_radii (n_radii)
NRadii == 2
\* number of successive snapshots (ComputeIonizedBox calls)
MaxSnap == 2
\* fixed-point unit: the real value 1.0
Scale == 4
\* redshift of the first snapshot; each later snapshot is one lower
ZFirst == 9
\* largest Poisson draw gsl_ran_poisson returns in the model
MaxDraw == 10
\* largest N_THREADS
MaxThreads == 2
\* number of haloes in the catalogue (halos->n_halos)
MaxHalos == 2

Cells == 0 .. (NCells - 1)

Max2(a, b) == IF a > b THEN a ELSE b
Min2(a, b) == IF a < b THEN a ELSE b

----------------------------------------------------------------------------
(* Inputs of one snapshot *)

\* astro_params->HII_EFF_FACTOR
HII_EFF_FACTOR == 2
\* global_params.N_POISSON
N_POISSON == 5

\* collapsed fractions a cell can have after mean fixing (fixed point)
FcVals == {0, 1, Scale, 2 * Scale}
\* filtered x_e of the spin-temperature box, clipped to [0, 0.999]
XeVals == {0, Scale \div 2}
\* pixel_mass * (1 + curr_dens) / M_min
MassRatios == {1, 4 * N_POISSON}
\* splined_recombination_rate(z_eff, Gamma12) * fabs_dtdz
RateVals == {0, 1}
\* filtered star-formation rate grid of the halo box
SfrVals == {0, 1}
\* values gsl_ran_poisson(rng, N_POISSON) returns
DrawVals == {0, N_POISSON, MaxDraw}

\* the value standing for an infinity or a NaN: isfinite() is 0 for it alone
NonFinite == 100 * Scale

\* error codes thrown by the backend
ValueError == 3
InfinityorNaNError == 7

\* the flag combinations that differ in what the solver does: CELL_RECOMB is
\* read only under INHOMO_RECO, NO_RNG only without USE_HALO_FIELD
FlagSet ==
    { o \in [ INHOMO_RECO : BOOLEAN, CELL_RECOMB : BOOLEAN,
              USE_HALO_FIELD : BOOLEAN, USE_TS_FLUCT : BOOLEAN, NO_RNG : BOOLEAN,
              USE_MINI_HALOS : {FALSE}, FIND_BUBBLE_ALGORITHM : {1, 2, 3} ] :
        /\ (o.CELL_RECOMB => o.INHOMO_RECO)
        /\ (o.NO_RNG => ~o.USE_HALO_FIELD) }

VARIABLES
    opt,        \* flag_options / global_params of the run
    snap,       \* number of ComputeIonizedBox calls started
    pc,         \* position inside ComputeIonizedBox
    R_ct,       \* index of the radius of the current R-loop iteration
    todo,       \* cells find_ionised_regions has not yet processed at this R
    box,        \* the output IonizedBox of the current call
    prev,       \* previous_ionize_box
    status,     \* value returned by the last call that returned
    heap,       \* buffers allocated by the call and not yet freed
    src,        \* the input grids, when every snapshot is given the same ones
    xe_box,     \* spin_temp->x_e_box as the fully neutral early-out reads it
    hist        \* history of the run, for stating the properties

ionVars ==
    <<opt, snap, pc, R_ct, todo, box, prev, status, heap, src, xe_box, hist>>

\* The parallel per-cell loops that watch for non-finite values
VARIABLES
    parFn,      \* the function whose parallel region is running, or "none"
    parTodo,    \* cells the parallel loop has not yet visited
    parFlag,    \* the error flag shared by the threads of the region
    parGrid,    \* the grid the loop writes (Fcoll, log10 Mturnover or dNrec)
    parThrown   \* the error thrown, and whether the region was still open

parVars == <<parFn, parTodo, parFlag, parGrid, parThrown>>

\* ComputeHaloBox
VARIABLES
    hin,        \* the inputs of the call: N_THREADS, USE_MINI_HALOS, the grids
    hphase,     \* position inside ComputeHaloBox
    hpc,        \* position of each thread after the loop of the turnover region
    havg,       \* l10_mturn_a_avg, shared by the threads
    htmp,       \* the value of l10_mturn_a_avg each thread has loaded
    hturn,      \* turnovers[0]
    hgrid,      \* grids->halo_mass
    hxray,      \* grids->halo_xray
    hmavg,      \* M_turn_a_avg, at the end averages->m_turn_acg
    hleft       \* haloes the gridding loop has not yet visited

haloVars == <<hin, hphase, hpc, havg, htmp, hturn, hgrid, hxray, hmavg, hleft>>

\* The regular-grid interpolation tables
VARIABLES
    tbl,        \* the table: y_arr of a 1-D table, z_arr of a 2-D table
    tq,         \* the query <<x, y>> of the last lookup
    tout,       \* what the last lookup returned: the value and the error thrown
    tpc         \* "ready" for a lookup, "done" after one

tabVars == <<tbl, tq, tout, tpc>>

\* ComputeTsBox
VARIABLES
    tsPc,       \* position inside ts_main
    tsStep,     \* number of ComputeTsBox calls started
    tsZ,        \* redshift of the current call
    tsDens,     \* perturbed_field->density, mapped to the redshift of the call
    tsPrev,     \* previous_spin_temp
    tsBox,      \* this_spin_temp
    tsTodo,     \* cells the R == 0 loop has not yet visited
    tsStatus,   \* value returned by the last call that returned
    tsMem,      \* the module-level arrays and TsInterpArraysInitialised
    cleanup     \* the cleanup argument of the current call

tsVars == <<tsPc, tsStep, tsZ, tsDens, tsPrev, tsBox, tsTodo, tsStatus, tsMem, cleanup>>

\* Single functions of the solver, run on their own
VARIABLES
    fnPc,       \* "off", "called" with the arguments set, "run", "done"
    fnIn,       \* the arguments and the flags the function reads
    fnOut       \* what the function has written and returned so far

fnVars == <<fnPc, fnIn, fnOut>>

vars == <<ionVars, parVars, haloVars, tabVars, tsVars, fnVars>>

----------------------------------------------------------------------------
(* set_ionbox_constants *)

redshift(k) == ZFirst - (k - 1)
prev_redshift(k) == IF k = 1 THEN 0 ELSE redshift(k - 1)

\* consts->dz; a first snapshot steps by (1+z)*(ZPRIME_STEP_FACTOR-1) > 0
dz(k) == IF prev_redshift(k) < 1 THEN 1 ELSE redshift(k) - prev_redshift(k)

ion_eff_factor(o) == IF o.USE_HALO_FIELD THEN 1 ELSE HII_EFF_FACTOR

\* rspec.R of radius index i, in cell lengths; index 0 is the cell scale
Radius(i) == i + 1

----------------------------------------------------------------------------
(* Boxes *)

\* the output box as the caller allocates it: xH ones, the rest zero
NewBox ==
    [ xH |-> [c \in Cells |-> Scale], Gamma12 |-> [c \in Cells |-> 0],
      MFP |-> [c \in Cells |-> 0], z_re |-> [c \in Cells |-> 0],
      dNrec |-> [c \in Cells |-> 0] ]

\* setup_first_z_prevbox: the stand-in previous box of the first snapshot;
\* of a previous box the solver reads z_re and dNrec
FirstPrevBox ==
    [ z_re |-> [c \in Cells |-> -1], dNrec |-> [c \in Cells |-> 0] ]

\* the previous box of a later snapshot: the output of the snapshot before
PrevOf(b) == [ z_re |-> b.z_re, dNrec |-> b.dNrec ]

\* ComputeIonizedBox, start: Gamma12 and MFP zeroed under INHOMO_RECO, z_re -1
InitOutputBox(o, b) ==
    [ b EXCEPT !.Gamma12 = IF o.INHOMO_RECO THEN [c \in Cells |-> 0] ELSE @,
               !.MFP = IF o.INHOMO_RECO THEN [c \in Cells |-> 0] ELSE @,
               !.z_re = [c \in Cells |-> -1] ]

\* nothing has happened yet in the current call
NoHist ==
    [ crossed |-> {}, recrossed |-> {}, writes |-> [c \in Cells |-> 0],
      firstR |-> [c \in Cells |-> 0], topR |-> -1, topAbove |-> TRUE,
      topCross |-> TRUE, everIon |-> {}, lastXH |-> [c \in Cells |-> Scale],
      early |-> FALSE, lastR |-> -1, partial |-> {}, tabR |-> -1,
      readR |-> {} ]

----------------------------------------------------------------------------
(* The components at rest *)

Threads == 1 .. MaxThreads
Halos == 1 .. MaxHalos

\* no error thrown
NoThrow == [code |-> 0, inside |-> FALSE]

\* no parallel region is running
ParIdle ==
    /\ parFn = "none"
    /\ parTodo = {}
    /\ parFlag = FALSE
    /\ parGrid = [c \in Cells |-> 0]
    /\ parThrown = NoThrow

\* ComputeHaloBox is not running
HaloIdle ==
    /\ hin = [ N_THREADS |-> 1, USE_MINI_HALOS |-> FALSE, n_halos |-> 0,
               l10 |-> [c \in Cells |-> 0], mass |-> [h \in Halos |-> 0],
               cell |-> [h \in Halos |-> 0] ]
    /\ hphase = "idle"
    /\ hpc = [t \in Threads |-> "out"]
    /\ havg = 0
    /\ htmp = [t \in Threads |-> 0]
    /\ hturn = 0
    /\ hgrid = [c \in Cells |-> 0]
    /\ hxray = [c \in Cells |-> 0]
    /\ hmavg = 0
    /\ hleft = {}

\* no table lookup is going on
TabIdle ==
    /\ tbl = [y_arr |-> <<>>, z_arr |-> <<>>]
    /\ tq = <<0, 0>>
    /\ tout = [val |-> 0, err |-> 0]
    /\ tpc = "idle"

\* a spin-temperature box as allocated
NewTsBox ==
    [ Ts |-> [c \in Cells |-> 0], Tk |-> [c \in Cells |-> 0],
      x_e |-> [c \in Cells |-> 0] ]

\* no single function has been called
FnIdle ==
    /\ fnPc = "off"
    /\ fnIn = [f |-> "none"]
    /\ fnOut = [f |-> "none"]

\* ComputeTsBox has not been called
TsIdle ==
    /\ tsPc = "off"
    /\ tsStep = 0
    /\ tsZ = 0
    /\ tsDens = [c \in Cells |-> 0]
    /\ tsPrev = NewTsBox
    /\ tsBox = NewTsBox
    /\ tsTodo = {}
    /\ tsStatus = 0
    /\ tsMem = [ TsInterpArraysInitialised |-> FALSE, live |-> FALSE,
                 fault |-> FALSE ]
    /\ cleanup = FALSE

----------------------------------------------------------------------------
(* find_ionised_regions: the computation for one cell *)

\* cells update_in_sphere paints around cell c at radius index i: the cells
\* within Radius(i) - 1 lattice steps of c on the periodic line
SphereCells(c, i) ==
    { d \in Cells : \E k \in 0 .. (Radius(i) - 1) :
                        d = (c + k) % NCells \/ c = (d + k) % NCells }

\* xion_RECFAST(z, 0): the residual electron fraction after recombination,
\* one fixed-point unit at the redshifts of the run
xion_RECFAST(z) == 1

\* set_fully_neutral_box: xH of a cell whose spin-temperature x_e is xe
FullyNeutralXHMutant(o, k, xe) == Scale
FullyNeutralXH(o, k, xe) ==
    IF o.USE_TS_FLUCT
    THEN (IF xe = NonFinite THEN NonFinite ELSE Scale - xe)
    ELSE Scale - xion_RECFAST(redshift(k))

\* the ionisation criterion, fc and rec and xe in fixed point; a comparison
\* with a NaN is false
Ionised(o, fc, xe, rec) ==
    /\ xe # NonFinite
    /\ fc * ion_eff_factor(o) * Scale > (Scale - xe) * (Scale + rec)

\* rec: recombinations per baryon seen by the cell at this radius
RecOf(o, own, filtered) ==
    IF o.INHOMO_RECO THEN (IF o.CELL_RECOMB THEN own ELSE filtered) ELSE 0

\* the test guarding the Gamma12 and MFP writes
FirstCrossingMutant(o, xH) == o.INHOMO_RECO
FirstCrossing(o, xH) == o.INHOMO_RECO /\ xH > 0

\* the value written to Gamma12_box, gamma_prefactor being one unit
Gamma12Of(o, i, fc, sfr) ==
    IF o.USE_HALO_FIELD THEN Radius(i) * sfr ELSE Radius(i) * fc

\* z_re of a cell flagged as ionised
ZreOfMutant(k, prevZre) == IF prevZre < 0 THEN prev_redshift(k) ELSE prevZre
ZreOf(k, prevZre) == IF prevZre < 0 THEN redshift(k) ELSE prevZre

\* the cells whose xH is set to 0 when cell c is flagged
FlagCellsMutant(o, c, i) ==
    IF o.FIND_BUBBLE_ALGORITHM = 2 THEN {} ELSE SphereCells(c, i)
FlagCells(o, c, i) ==
    IF o.FIND_BUBBLE_ALGORITHM = 2 THEN {c}
    ELSE IF o.FIND_BUBBLE_ALGORITHM = 1 THEN SphereCells(c, i) ELSE {}

\* number of haloes of mass M_min/N_POISSON placed in a partially ionised cell
NHalosMutant(o, draw) == draw
N_halos_in_cell(o, draw) == IF o.NO_RNG THEN 1 ELSE draw

\* curr_fcoll of the partial ionisation, ratio = pixel_mass*(1+dens)/M_min
PartialFcoll(o, fc, ratio, draw) ==
    IF o.USE_HALO_FIELD THEN fc
    ELSE LET clipped == Min2(fc, Scale)
             sampled == IF fc * ratio < N_POISSON * Scale
                        THEN (N_halos_in_cell(o, draw) * fc) \div N_POISSON
                        ELSE clipped
             kept == IF 5 * fc * ratio < Scale THEN 0 ELSE sampled
         IN  Min2(kept, Scale)

\* the test guarding the partial ionisation: the last filter step, and a
\* cell that is not yet fully ionised
PartialStepMutant(i, xH) == xH > 0
PartialStep(i, xH) == i = 0 /\ xH > 0

\* res_xH of a partially ionised cell; a NaN passes both clipping tests
PartialXHMutant(o, fc, xe, ratio, draw) ==
    Scale - PartialFcoll(o, fc, ratio, draw) * ion_eff_factor(o) - xe
PartialXH(o, fc, xe, ratio, draw) ==
    LET res == Scale - PartialFcoll(o, fc, ratio, draw) * ion_eff_factor(o) - xe
    IN  IF xe = NonFinite THEN NonFinite
        ELSE IF res < 0 THEN 0 ELSE IF res > Scale THEN Scale ELSE res

\* the loop body of find_ionised_regions for cell c at radius index i of
\* snapshot k: the output box b after it, given the previous box pv and the
\* values in the cell reads from the filtered grids
CellUpdate(o, k, i, pv, b, c, in) ==
    LET rec == RecOf(o, pv.dNrec[c], in.recf)
        first == FirstCrossing(o, b.xH[c])
        flagged == FlagCells(o, c, i)
    IN  IF Ionised(o, in.fc, in.xe, rec)
        THEN [b EXCEPT
                !.Gamma12[c] = IF first THEN Gamma12Of(o, i, in.fc, in.sfr)
                               ELSE @,
                !.MFP[c] = IF first THEN Radius(i) ELSE @,
                !.z_re[c] = ZreOf(k, pv.z_re[c]),
                !.xH = [d \in Cells |-> IF d \in flagged THEN 0 ELSE @[d]]]
        ELSE IF PartialStep(i, b.xH[c])
        THEN [b EXCEPT !.xH[c] = PartialXH(o, in.fc, in.xe, in.ratio, in.draw)]
        ELSE b

\* set_recombination_rates: the new dNrec of a cell
DNrecOf(k, prevN, rate, xH) ==
    IF xH = NonFinite THEN NonFinite
    ELSE prevN + rate * dz(k) * (Scale - xH)

----------------------------------------------------------------------------
(* The inputs a step reads *)

RECURSIVE SumOver(_, _)
SumOver(f, S) ==
    IF S = {} THEN 0
    ELSE LET d == CHOOSE e \in S : TRUE IN f[d] + SumOver(f, S \ {d})

\* copy_filter_transform: a grid is filtered on every radius but index 0
Filtered(f, c, i) ==
    IF i = 0 THEN f[c]
    ELSE SumOver(f, SphereCells(c, i)) \div Cardinality(SphereCells(c, i))

\* no fixed input grids: every step draws its inputs afresh
NoSrc ==
    [ fixed |-> FALSE, fc |-> [c \in Cells |-> 0], xe |-> 0, ratio |-> 1,
      early |-> FALSE, stop |-> -1, nan |-> FALSE ]

\* ComputeIonizedBox has not been called
IonIdle ==
    /\ opt = [ INHOMO_RECO |-> FALSE, CELL_RECOMB |-> FALSE,
               USE_HALO_FIELD |-> FALSE, USE_TS_FLUCT |-> FALSE,
               NO_RNG |-> FALSE, USE_MINI_HALOS |-> FALSE,
               FIND_BUBBLE_ALGORITHM |-> 2 ]
    /\ snap = 0
    /\ pc = "off"
    /\ R_ct = NRadii
    /\ todo = {}
    /\ box = NewBox
    /\ prev = PrevOf(NewBox)
    /\ status = 0
    /\ heap = {}
    /\ src = NoSrc
    /\ xe_box = [c \in Cells |-> 0]
    /\ hist = NoHist

\* input grids that every snapshot of the run is given again
SrcSet ==
    [ fixed : {TRUE}, fc : [Cells -> FcVals], xe : XeVals, ratio : MassRatios,
      early : BOOLEAN, stop : -1 .. (NRadii - 1), nan : {FALSE} ]

\* the collapsed fraction of cell c at radius index i
InFc(c, i) == IF src.fixed THEN {Filtered(src.fc, c, i)} ELSE FcVals
\* x_e of the spin-temperature box at the cell
InXe ==
    IF ~opt.USE_TS_FLUCT THEN {0}
    ELSE IF src.fixed THEN {src.xe}
    ELSE IF src.nan THEN XeVals \cup {NonFinite} ELSE XeVals
InRatio ==
    IF opt.USE_HALO_FIELD THEN {1}
    ELSE IF src.fixed THEN {src.ratio} ELSE MassRatios
\* sfr_filtered, read under USE_HALO_FIELD and INHOMO_RECO
InSfr == IF opt.USE_HALO_FIELD /\ opt.INHOMO_RECO THEN SfrVals ELSE {0}
\* the Poisson draw, made when NO_RNG and USE_HALO_FIELD are off
InDraw == IF opt.USE_HALO_FIELD THEN {1} ELSE DrawVals
\* exp_global_hii < HII_ROUND_ERR
InEarly == IF src.fixed THEN {src.early} ELSE BOOLEAN
\* M_min > RtoM(R) at radius index i
InBreak(i) == IF src.fixed THEN {i = src.stop} ELSE BOOLEAN
\* N_rec_filtered at the cell: the previous dNrec clipped at 0, filtered
InRecFiltered(c, i) ==
    IF i = 0 THEN {Max2(0, prev.dNrec[c])}
    ELSE {Max2(0, prev.dNrec[d]) : d \in SphereCells(c, i)}

----------------------------------------------------------------------------
(* ComputeIonizedBox *)

\* entry: parameter check, output box initialisation, allocations
Enter ==
    /\ pc \in {"idle", "returned"}
    /\ snap < MaxSnap
    /\ snap' = snap + 1
    /\ hist' = [NoHist EXCEPT !.everIon = hist.everIon,
                              !.lastXH = IF src.fixed THEN box.xH ELSE @]
    /\ R_ct' = NRadii
    /\ todo' = {}
    /\ IF opt.FIND_BUBBLE_ALGORITHM \notin {1, 2}
       THEN /\ pc' = "failed"
            /\ status' = ValueError
            /\ box' = NewBox
            /\ UNCHANGED <<prev, heap>>
       ELSE /\ pc' = "setup"
            /\ box' = InitOutputBox(opt, NewBox)
            /\ prev' = IF snap = 0 THEN FirstPrevBox ELSE PrevOf(box)
            /\ heap' = heap \cup {"radii_spec", "fftw_grids"}
                        \cup (IF snap = 0 THEN {"prev_z_re"} ELSE {})
                        \cup (IF snap = 0 /\ opt.INHOMO_RECO
                              THEN {"prev_dNrec"} ELSE {})
                        \cup (IF ~opt.NO_RNG /\ ~opt.USE_HALO_FIELD
                              THEN {"cell_rng"} ELSE {})
            /\ UNCHANGED status
    /\ xe_box' = [c \in Cells |-> 0]
    /\ UNCHANGED <<fnVars, parVars, haloVars, tabVars, tsVars, opt, src>>

\* set_mean_fcoll and the choice between the early-out and the R-loop
SetMeanFcoll ==
    /\ pc = "setup"
    /\ \E e \in InEarly :
          IF e THEN /\ pc' = "neutral"
                    /\ xe_box' \in [Cells -> InXe]
                    /\ hist' = [hist EXCEPT !.early = TRUE]
               ELSE /\ pc' = "loop"
                    /\ UNCHANGED <<xe_box, hist>>
    /\ UNCHANGED <<fnVars, parVars, haloVars, tabVars, tsVars, opt, snap, R_ct, todo, box, prev, status, heap, src>>

\* set_mean_fcoll finds a non-finite mean collapsed fraction
ThrowMeanFcoll ==
    /\ pc = "setup"
    /\ pc' = "failed"
    /\ status' = InfinityorNaNError
    /\ UNCHANGED <<fnVars, parVars, haloVars, tabVars, tsVars, opt, xe_box, snap, R_ct, todo, box, prev, heap, src, hist>>

\* calculate_mcrit_boxes, called with minihaloes after the output box has
\* been initialised: a cell whose Mcrit_LW is NaN or 0 throws ValueError
ThrowMcrit ==
    /\ pc = "setup"
    /\ opt.USE_MINI_HALOS
    /\ pc' = "failed"
    /\ status' = ValueError
    /\ UNCHANGED <<fnVars, parVars, haloVars, tabVars, tsVars, opt, xe_box, snap, R_ct, todo, box, prev, heap, src, hist>>

\* set_fully_neutral_box
SetFullyNeutral ==
    /\ pc = "neutral"
    /\ box' = [box EXCEPT !.xH =
                  [c \in Cells |-> FullyNeutralXH(opt, snap, xe_box[c])]]
    /\ pc' = "cleanup"
    /\ UNCHANGED <<fnVars, parVars, haloVars, tabVars, tsVars, opt, xe_box, snap, R_ct, todo, prev, status, heap, src, hist>>

\* for(R_ct=n_radii;R_ct--;): the index of the iteration after index i
NextRadiusMutant(i) == IF i > 1 THEN i - 2 ELSE 0
NextRadius(i) == i - 1

\* setup_integration_tables, called in every iteration without the halo
\* field: the radius index the conditional tables are built for, cur being
\* the one they were built for before
TablesForMutant(o, i, cur) == IF o.USE_HALO_FIELD \/ cur >= 0 THEN cur ELSE i
TablesFor(o, i, cur) == IF o.USE_HALO_FIELD THEN cur ELSE i

\* one iteration of the R-loop header: the loop test, the break test, the
\* filtering and the set-up of the tables;
\* the filtering; find_ionised_regions then visits every cell
BeginR ==
    /\ pc = "loop"
    /\ todo = {}
    /\ IF R_ct = 0
       THEN /\ pc' = "post"
            /\ UNCHANGED <<R_ct, todo, hist, heap>>
       ELSE /\ R_ct' = NextRadius(R_ct)
            /\ \E b \in InBreak(NextRadius(R_ct)) :
                  IF b THEN /\ pc' = "post"
                            /\ UNCHANGED <<todo, hist, heap>>
                  ELSE /\ pc' = "loop"
                       /\ todo' = Cells
                       /\ heap' = IF opt.USE_HALO_FIELD THEN heap
                                  ELSE heap \cup {"cond_tables"}
                       /\ hist' = [hist EXCEPT
                                     !.topR = IF @ < 0 THEN NextRadius(R_ct) ELSE @,
                                     !.lastR = NextRadius(R_ct),
                                     !.tabR = TablesFor(opt, NextRadius(R_ct), @)]
    /\ UNCHANGED <<fnVars, parVars, haloVars, tabVars, tsVars, opt, xe_box, snap, box, prev, status, src>>

\* find_ionised_regions: the loop body for cell c at the current radius;
\* the parallel loop visits the cells in any order
FindIonised(c, fc, xe, recf, sfr, ratio, draw) ==
    LET rec == RecOf(opt, prev.dNrec[c], recf)
        ion == Ionised(opt, fc, xe, rec)
        first == FirstCrossing(opt, box.xH[c])
        flagged == FlagCells(opt, c, R_ct)
    IN  /\ box' = CellUpdate(opt, snap, R_ct, prev, box, c,
                             [fc |-> fc, xe |-> xe, recf |-> recf, sfr |-> sfr,
                              ratio |-> ratio, draw |-> draw])
        /\ hist' =
             [hist EXCEPT
                !.crossed = IF ion THEN @ \cup {c} ELSE @,
                !.recrossed = IF ion /\ c \in hist.crossed THEN @ \cup {c} ELSE @,
                !.everIon = IF ion THEN @ \cup {c} \cup flagged ELSE @,
                !.writes[c] = IF ion /\ first THEN @ + 1 ELSE @,
                !.firstR[c] = IF ion /\ c \notin hist.crossed
                              THEN Radius(R_ct) ELSE @,
                !.topAbove = IF R_ct = hist.topR
                             THEN @ /\ fc * ion_eff_factor(opt) > Scale ELSE @,
                !.topCross = IF R_ct = hist.topR THEN @ /\ ion ELSE @,
                !.partial = IF ~ion /\ PartialStep(R_ct, box.xH[c])
                            THEN @ \cup {c} ELSE @,
                !.readR = IF opt.USE_HALO_FIELD THEN @
                          ELSE @ \cup {<<R_ct, hist.tabR>>}]

ProcessCell ==
    /\ pc = "loop"
    /\ \E c \in todo :
         /\ todo' = todo \ {c}
         /\ \E fc \in InFc(c, R_ct), xe \in InXe, recf \in InRecFiltered(c, R_ct),
               sfr \in InSfr, ratio \in InRatio, draw \in InDraw :
                 FindIonised(c, fc, xe, recf, sfr, ratio, draw)
    /\ UNCHANGED <<fnVars, parVars, haloVars, tabVars, tsVars, opt, xe_box, snap, pc, R_ct, prev, status, heap, src>>

\* set_ionized_temperatures and the check of global_xH; the mean of xH_box
\* is computed only when the build has LOG_LEVEL >= DEBUG_LEVEL, otherwise
\* global_xH still holds the 0.0 assigned before the loop
SetTemperatures ==
    /\ pc = "post"
    /\ \E debug_level \in BOOLEAN :
          IF debug_level /\ (\E c \in Cells : box.xH[c] = NonFinite)
          THEN pc' = "failed" /\ status' = InfinityorNaNError
          ELSE /\ pc' = IF opt.INHOMO_RECO THEN "recomb" ELSE "cleanup"
               /\ UNCHANGED status
    /\ UNCHANGED <<fnVars, parVars, haloVars, tabVars, tsVars, opt, xe_box, snap, R_ct, todo, box, prev, heap, src, hist>>

\* set_ionized_temperatures finds a non-finite temperature
ThrowTemperature ==
    /\ pc = "post"
    /\ pc' = "failed"
    /\ status' = InfinityorNaNError
    /\ UNCHANGED <<fnVars, parVars, haloVars, tabVars, tsVars, opt, xe_box, snap, R_ct, todo, box, prev, heap, src, hist>>

\* set_recombination_rates; finite_error is set by a cell whose dNrec is not
\* finite and is otherwise read without having been initialised, so the
\* Throw after the loop may or may not happen
SetRecombinationRates ==
    /\ pc = "recomb"
    /\ \E rate \in [Cells -> RateVals] :
          box' = [box EXCEPT !.dNrec =
                     [c \in Cells |->
                        DNrecOf(snap, prev.dNrec[c], rate[c], box.xH[c])]]
    /\ \E finite_error \in BOOLEAN :
          IF finite_error \/ (\E c \in Cells : box.xH[c] = NonFinite)
          THEN pc' = "failed" /\ status' = InfinityorNaNError
          ELSE pc' = "cleanup" /\ UNCHANGED status
    /\ UNCHANGED <<fnVars, parVars, haloVars, tabVars, tsVars, opt, xe_box, snap, R_ct, todo, prev, heap, src, hist>>

\* the frees at the end of the Try block, and return(0)
Cleanup ==
    /\ pc = "cleanup"
    /\ heap' = heap \ ({"fftw_grids", "radii_spec", "cell_rng", "cond_tables"}
                        \cup (IF prev_redshift(snap) < 1 THEN {"prev_z_re"} ELSE {}))
    /\ status' = 0
    /\ pc' = "returned"
    /\ UNCHANGED <<fnVars, parVars, haloVars, tabVars, tsVars, opt, xe_box, snap, R_ct, todo, box, prev, src, hist>>

----------------------------------------------------------------------------
(* Parallel regions: calculate_mcrit_boxes, calculate_fcoll_grid with *)
(* USE_MINI_HALOS and without USE_HALO_FIELD, set_recombination_rates *)

ParFns == {"calculate_mcrit_boxes", "calculate_fcoll_grid",
           "set_recombination_rates"}

\* values a cell can compute
ParVals == {0 - Scale, 0, Scale \div 2, 2 * Scale, NonFinite}

\* Splined_Fcoll and prev_Splined_Fcoll are clipped to [0, 1] before use
ClipSplined(x) == IF x > Scale THEN Scale ELSE IF x < 0 THEN 0 ELSE x

\* box->Fcoll of a cell: the trapezoidal update, clipped from above only
FcollOf(prevFcoll, splined, prevSplined) ==
    LET f == prevFcoll + ClipSplined(splined) - ClipSplined(prevSplined)
    IN  IF f > Scale THEN Scale ELSE f

\* a function with a parallel per-cell loop is entered; the finite_error of
\* set_recombination_rates is declared without an initial value
OpenRegion ==
    /\ parFn = "none"
    /\ \E f \in ParFns : parFn' = f
    /\ parTodo' = Cells
    /\ \E b \in BOOLEAN :
          parFlag' = IF parFn' = "set_recombination_rates" THEN b ELSE FALSE
    /\ parGrid' = [c \in Cells |-> 0]
    /\ parThrown' = NoThrow
    /\ UNCHANGED <<fnVars, ionVars, haloVars, tabVars, tsVars>>

\* calculate_mcrit_boxes, loop body: Throw(ValueError) in the region when
\* Mcrit_LW is NaN or 0
CellMcrit ==
    /\ parFn = "calculate_mcrit_boxes"
    /\ parThrown.code = 0
    /\ \E c \in parTodo, mcritLW \in ParVals :
          /\ parTodo' = parTodo \ {c}
          /\ IF mcritLW = NonFinite \/ mcritLW = 0
             THEN /\ parThrown' = [code |-> ValueError, inside |-> TRUE]
                  /\ UNCHANGED parGrid
             ELSE /\ parGrid' = [parGrid EXCEPT ![c] = Max2(mcritLW, Scale)]
                  /\ UNCHANGED parThrown
    /\ UNCHANGED <<fnVars, ionVars, haloVars, tabVars, tsVars, parFn, parFlag>>

\* calculate_fcoll_grid, loop body with minihaloes: the Fcoll update, then
\* Throw(InfinityorNaNError) in the region when the running total is not finite
CellFcoll ==
    /\ parFn = "calculate_fcoll_grid"
    /\ parThrown.code = 0
    /\ \E c \in parTodo, splined \in ParVals, prevSplined \in ParVals \ {NonFinite},
          prevFcoll \in {0, Scale \div 2} :
          /\ parTodo' = parTodo \ {c}
          /\ IF splined = NonFinite
             THEN /\ parGrid' = [parGrid EXCEPT ![c] = NonFinite]
                  /\ parThrown' = [code |-> InfinityorNaNError, inside |-> TRUE]
             ELSE /\ parGrid' = [parGrid EXCEPT
                                   ![c] = FcollOf(prevFcoll, splined, prevSplined)]
                  /\ UNCHANGED parThrown
    /\ UNCHANGED <<fnVars, ionVars, haloVars, tabVars, tsVars, parFn, parFlag>>

\* set_recombination_rates, loop body: a non-finite dNrec sets finite_error
CellRecomb ==
    /\ parFn = "set_recombination_rates"
    /\ \E c \in parTodo, dNrec \in ParVals :
          /\ parTodo' = parTodo \ {c}
          /\ parFlag' = IF dNrec = NonFinite THEN TRUE ELSE parFlag
          /\ parGrid' = [parGrid EXCEPT ![c] = dNrec]
    /\ UNCHANGED <<fnVars, ionVars, haloVars, tabVars, tsVars, parFn, parThrown>>

\* the end of the region and what follows it in the function
CloseRegion ==
    /\ parFn # "none"
    /\ parTodo = {} \/ parThrown.code # 0
    /\ parFn' = "none"
    /\ parTodo' = {}
    /\ parThrown' = IF parThrown.code = 0 /\ parFlag
                    THEN [code |-> InfinityorNaNError, inside |-> FALSE]
                    ELSE parThrown
    /\ UNCHANGED <<fnVars, ionVars, haloVars, tabVars, tsVars, parFlag, parGrid>>

InitPar ==
    /\ IonIdle
    /\ ParIdle
    /\ HaloIdle
    /\ TabIdle
    /\ TsIdle
    /\ FnIdle

NextPar ==
    \/ OpenRegion
    \/ CellMcrit
    \/ CellFcoll
    \/ CellRecomb
    \/ CloseRegion

SpecPar == InitPar /\ [][NextPar]_vars

----------------------------------------------------------------------------
(* ComputeHaloBox: get_mean_log10_turnovers and sum_halos_onto_grid *)

\* log10 of the turnover mass of a cell
LogVals == {8, 12}
\* halo masses of the catalogue; a halo of mass 0 is skipped
MassVals == {0, 2}
\* log10(consts->mturn_a_nofb)
Log10MturnNofb == 8
\* VOLUME / HII_TOT_NUM_PIXELS in the units of the halo masses
cell_volume == 2

\* the catalogue holds n_halos haloes; the entries beyond are not read
HaloInputs ==
    { i \in [ N_THREADS : Threads, USE_MINI_HALOS : BOOLEAN,
              n_halos : 0 .. MaxHalos, l10 : [Cells -> LogVals],
              mass : [Halos -> MassVals], cell : [Halos -> Cells] ] :
        \A h \in Halos : h > i.n_halos => i.mass[h] = 0 /\ i.cell[h] = 0 }

\* the haloes of the catalogue
Catalogue == 1 .. hin.n_halos

\* halo_xray of a halo, in units in which it equals the halo mass
XrayOf(h) == hin.mass[h]

\* consts->mturn_a_nofb and the turnover mass with feedback of a cell, in
\* units of the former
MturnOf(l) == 10 ^ (l - Log10MturnNofb)

\* M_turn_a of a halo
MturnA(h) ==
    IF hin.USE_MINI_HALOS THEN MturnOf(hin.l10[hin.cell[h]])
    ELSE MturnOf(Log10MturnNofb)

\* total_n_halos: the haloes of the catalogue that are not cut
TotalNHalos == Cardinality({h \in Catalogue : hin.mass[h] # 0})

\* the threads of the parallel region
Team == 1 .. hin.N_THREADS

\* ComputeHaloBox, start: the grids are zeroed, all but halo_xray
ZeroGrids ==
    /\ hphase = "zero"
    /\ hgrid' = [c \in Cells |-> 0]
    /\ hphase' = "turnovers"
    /\ UNCHANGED <<fnVars, ionVars, parVars, tabVars, tsVars, hin, hpc, havg, htmp, hturn, hleft, hxray, hmavg>>

\* get_mean_log10_turnovers without minihaloes: the values without feedback
TurnoversNoMini ==
    /\ hphase = "turnovers"
    /\ ~hin.USE_MINI_HALOS
    /\ hturn' = Log10MturnNofb
    /\ hphase' = "grid"
    /\ hleft' = Catalogue
    /\ hmavg' = 0
    /\ UNCHANGED <<fnVars, ionVars, parVars, tabVars, tsVars, hin, hpc, havg, htmp, hgrid, hxray>>

\* get_mean_log10_turnovers with minihaloes: the loop with its reduction;
\* at the barrier ending the loop the shared sum holds every cell
TurnoversLoop ==
    /\ hphase = "turnovers"
    /\ hin.USE_MINI_HALOS
    /\ havg' = SumOver(hin.l10, Cells)
    /\ hpc' = [t \in Threads |-> IF t \in Team THEN "load" ELSE "out"]
    /\ hphase' = "region"
    /\ UNCHANGED <<fnVars, ionVars, parVars, tabVars, tsVars, hin, htmp, hturn, hgrid, hleft, hxray, hmavg>>

\* l10_mturn_a_avg /= HII_TOT_NUM_PIXELS, run by every thread of the region
\* on the shared variable and not atomic: the load
ThreadLoad(t) ==
    /\ hphase = "region"
    /\ hpc[t] = "load"
    /\ htmp' = [htmp EXCEPT ![t] = havg]
    /\ hpc' = [hpc EXCEPT ![t] = "store"]
    /\ UNCHANGED <<fnVars, ionVars, parVars, tabVars, tsVars, hin, hphase, havg, hturn, hgrid, hleft, hxray, hmavg>>

\* the division and the store
ThreadStore(t) ==
    /\ hphase = "region"
    /\ hpc[t] = "store"
    /\ havg' = htmp[t] \div NCells
    /\ hpc' = [hpc EXCEPT ![t] = "assign"]
    /\ UNCHANGED <<fnVars, ionVars, parVars, tabVars, tsVars, hin, hphase, htmp, hturn, hgrid, hleft, hxray, hmavg>>

\* turnovers[0] = l10_mturn_a_avg, run by every thread of the region
ThreadAssign(t) ==
    /\ hphase = "region"
    /\ hpc[t] = "assign"
    /\ hturn' = havg
    /\ hpc' = [hpc EXCEPT ![t] = "out"]
    /\ htmp' = [htmp EXCEPT ![t] = 0]
    /\ UNCHANGED <<fnVars, ionVars, parVars, tabVars, tsVars, hin, hphase, havg, hgrid, hleft, hxray, hmavg>>

\* the end of the region of get_mean_log10_turnovers
EndTurnovers ==
    /\ hphase = "region"
    /\ \A t \in Threads : hpc[t] = "out"
    /\ hphase' = "grid"
    /\ hleft' = Catalogue
    /\ hmavg' = 0
    /\ UNCHANGED <<fnVars, ionVars, parVars, tabVars, tsVars, hin, hpc, havg, htmp, hturn, hgrid, hxray>>

\* sum_halos_onto_grid, first loop, one halo: the threads take the haloes
\* in any order and add with atomic updates
GridHalo(h) ==
    /\ hphase = "grid"
    /\ h \in hleft
    /\ hleft' = hleft \ {h}
    /\ hgrid' = IF hin.mass[h] = 0 THEN hgrid
                ELSE [hgrid EXCEPT ![hin.cell[h]] = @ + hin.mass[h]]
    /\ hxray' = IF hin.mass[h] = 0 THEN hxray
                ELSE [hxray EXCEPT ![hin.cell[h]] = @ + XrayOf(h)]
    /\ hmavg' = IF hin.mass[h] = 0 THEN hmavg ELSE hmavg + MturnA(h)
    /\ UNCHANGED <<fnVars, ionVars, parVars, tabVars, tsVars, hin, hphase, hpc, havg, htmp, hturn>>

\* sum_halos_onto_grid, second loop: every cell is divided by cell_volume;
\* then the turnover mass is averaged over the haloes, or set to the value
\* without feedback when there is none
DivideGrid ==
    /\ hphase = "grid"
    /\ hleft = {}
    /\ hgrid' = [c \in Cells |-> hgrid[c] \div cell_volume]
    /\ hxray' = [c \in Cells |-> hxray[c] \div cell_volume]
    /\ hmavg' = IF TotalNHalos > 0 THEN hmavg \div TotalNHalos
                ELSE MturnOf(Log10MturnNofb)
    /\ hphase' = "done"
    /\ UNCHANGED <<fnVars, ionVars, parVars, tabVars, tsVars, hin, hpc, havg, htmp, hturn, hleft>>

InitHalo ==
    /\ IonIdle
    /\ ParIdle
    /\ hin \in HaloInputs
    /\ hphase = "zero"
    /\ hpc = [t \in Threads |-> "out"]
    /\ havg = 0
    /\ htmp = [t \in Threads |-> 0]
    /\ hturn = 0
    /\ hgrid \in [Cells -> {0, 1}]
    /\ hxray \in [Cells -> {0, 2 * cell_volume}]
    /\ hmavg = 0
    /\ hleft = {}
    /\ TabIdle
    /\ TsIdle
    /\ FnIdle

NextHalo ==
    \/ ZeroGrids
    \/ TurnoversNoMini
    \/ TurnoversLoop
    \/ \E t \in Threads : ThreadLoad(t)
    \/ \E t \in Threads : ThreadStore(t)
    \/ \E t \in Threads : ThreadAssign(t)
    \/ EndTurnovers
    \/ \E h \in Halos : GridHalo(h)
    \/ DivideGrid

SpecHalo == InitHalo /\ [][NextHalo]_vars

----------------------------------------------------------------------------
(* Snapshots of the excursion-set solver, every step with fresh inputs *)

Init ==
    /\ opt \in FlagSet
    /\ snap = 0
    /\ pc = "idle"
    /\ R_ct = NRadii
    /\ todo = {}
    /\ box = NewBox
    /\ prev = PrevOf(NewBox)
    /\ status = 0
    /\ heap = {}
    /\ src = NoSrc
    /\ xe_box = [c \in Cells |-> 0]
    /\ hist = NoHist
    /\ ParIdle
    /\ HaloIdle
    /\ TabIdle
    /\ TsIdle
    /\ FnIdle

Next ==
    \/ Enter
    \/ SetMeanFcoll
    \/ ThrowMeanFcoll
    \/ SetFullyNeutral
    \/ BeginR
    \/ ProcessCell
    \/ SetTemperatures
    \/ ThrowTemperature
    \/ SetRecombinationRates
    \/ Cleanup

Spec == Init /\ [][Next]_vars

----------------------------------------------------------------------------
(* Successive snapshots that are all given the same input grids *)

SameSrcSet ==
    { g \in SrcSet : /\ (~opt.USE_TS_FLUCT => g.xe = 0)
                     /\ (opt.USE_HALO_FIELD => g.ratio = 1) }

InitSame ==
    /\ opt \in { o \in FlagSet : o.FIND_BUBBLE_ALGORITHM \in {1, 2} }
    /\ snap = 0
    /\ pc = "idle"
    /\ R_ct = NRadii
    /\ todo = {}
    /\ box = NewBox
    /\ prev = PrevOf(NewBox)
    /\ status = 0
    /\ heap = {}
    /\ src \in SameSrcSet
    /\ xe_box = [c \in Cells |-> 0]
    /\ hist = NoHist
    /\ ParIdle
    /\ HaloIdle
    /\ TabIdle
    /\ TsIdle
    /\ FnIdle

SpecSame == InitSame /\ [][Next]_vars

----------------------------------------------------------------------------
(* Snapshots with minihaloes that are given faulty inputs: a spin-temperature *)
(* box whose x_e is not finite, a Lyman-Werner threshold that is NaN or 0    *)

FaultFlagSet ==
    [ INHOMO_RECO : BOOLEAN, CELL_RECOMB : {FALSE}, USE_HALO_FIELD : {FALSE},
      USE_TS_FLUCT : {TRUE}, NO_RNG : {TRUE}, USE_MINI_HALOS : {TRUE},
      FIND_BUBBLE_ALGORITHM : {2, 3} ]

InitFault ==
    /\ opt \in FaultFlagSet
    /\ snap = 0
    /\ pc = "idle"
    /\ R_ct = NRadii
    /\ todo = {}
    /\ box = NewBox
    /\ prev = PrevOf(NewBox)
    /\ status = 0
    /\ heap = {}
    /\ src = [NoSrc EXCEPT !.nan = TRUE]
    /\ xe_box = [c \in Cells |-> 0]
    /\ hist = NoHist
    /\ ParIdle
    /\ HaloIdle
    /\ TabIdle
    /\ TsIdle
    /\ FnIdle

NextFault ==
    \/ Next
    \/ ThrowMcrit

SpecFault == InitFault /\ [][NextFault]_vars

----------------------------------------------------------------------------
(* Properties of the excursion-set solver *)

\* the first R-step the loop executed has visited every cell
TopDone == hist.topR >= 0 /\ (R_ct < hist.topR \/ todo = {})

\* C1: in one run, Gamma12 and MFP of a cell are written at most once, only
\* at a step where the cell satisfies the criterion for the first time and
\* is still neutral, and MFP holds the radius of that step; a cell that was
\* never written holds the zeros of the initialisation
FirstCrossingOnly ==
    \A c \in Cells :
        /\ hist.writes[c] <= 1
        /\ hist.writes[c] = 1 =>
              /\ c \in hist.crossed
              /\ box.MFP[c] = hist.firstR[c]
        /\ hist.writes[c] = 0 => box.MFP[c] = 0 /\ box.Gamma12[c] = 0

\* a cell satisfied the criterion at two radii and holds the first one
CrossedTwiceWrittenOnce ==
    /\ opt.INHOMO_RECO
    /\ \E c \in hist.recrossed :
          /\ hist.writes[c] = 1
          /\ box.MFP[c] = hist.firstR[c]
          /\ hist.firstR[c] > Radius(R_ct)

\* C2: after a successful call, z_re is -1 exactly in the cells that were
\* never ionised in this or an earlier snapshot
ZreIffNeverIonised ==
    pc = "returned" =>
        \A c \in Cells : (box.z_re[c] = -1) <=> (c \notin hist.everIon)

\* C3: when ComputeIonizedBox returns a non-zero status, the output box
\* holds no xH and no dNrec written by the failed call
FailedBoxUntouched ==
    pc = "failed" => box.xH = NewBox.xH /\ box.dNrec = NewBox.dNrec

\* C4: once the call has returned, with or without an error, the k-space
\* scratch grids it allocated are released
GridsReleased ==
    pc \in {"returned", "failed"} => "fftw_grids" \notin heap

\* C5: an error is thrown only after the parallel region has ended: a loop
\* body that meets a non-finite value only records a flag
NoThrowInsideRegion ==
    parThrown.code # 0 => ~parThrown.inside

\* set_recombination_rates threw after its region, the flag set by a cell
ThrownAfterRegion ==
    /\ parThrown.code = InfinityorNaNError /\ ~parThrown.inside
    /\ \E c \in Cells : parGrid[c] = NonFinite

\* the outputs of ComputeHaloBox computed by one thread
RefTurnover ==
    IF hin.USE_MINI_HALOS THEN SumOver(hin.l10, Cells) \div NCells
    ELSE Log10MturnNofb
RefGrid ==
    [c \in Cells |->
        SumOver(hin.mass, {h \in Halos : hin.cell[h] = c}) \div cell_volume]

\* C10: when ComputeHaloBox is done, the gridded halo mass and the averaged
\* log10 turnover mass are the ones a single thread computes, whatever the
\* number of threads and their interleaving
HaloBoxThreadIndependent ==
    hphase = "done" => hgrid = RefGrid /\ hturn = RefTurnover

\* two threads gridded two haloes of one cell and the grid is the reference
TwoThreadsGridAgrees ==
    /\ hphase = "done" /\ hin.N_THREADS = 2
    /\ \E c \in Cells : hgrid[c] = 2 /\ hgrid = RefGrid

DNrecNonDecreasing ==
    (pc = "returned" /\ opt.INHOMO_RECO) =>
        \A c \in Cells : box.dNrec[c] >= prev.dNrec[c]

\* the R-loop ran in a later snapshot and a cell's dNrec went down
DNrecDecreasedByLoop ==
    /\ pc = "returned" /\ opt.INHOMO_RECO /\ snap >= 2 /\ hist.topR >= 0
    /\ \E c \in Cells : box.xH[c] = 0 /\ box.dNrec[c] < prev.dNrec[c]

NonFiniteIsError ==
    pc = "returned" => \A c \in Cells : box.xH[c] # NonFinite

\* a debug build finds the non-finite xH of a partially ionised cell
NonFiniteXHDetected ==
    /\ pc = "failed" /\ status = InfinityorNaNError /\ hist.topR >= 0
    /\ \E c \in Cells : box.xH[c] = NonFinite

----
\* The regular-grid interpolation tables (RGTable1D, RGTable2D)

\* number of bins of a table, in either direction
TableBins == 2

\* the lower edge and the bin width of a table
x_min == 0
x_width == Scale

\* the upper edge of a table
x_max == x_min + (TableBins - 1) * x_width

\* error code of a table evaluation error
TableEvaluationError == 3

\* entries a table may hold
TabYVals == {0, Scale, 2 * Scale}
TabZVals == {0, 2 * Scale}

\* what a read outside the allocated array may return
JunkVals == {0, 2 * Scale}

\* arguments of a lookup: one bin below the table to one bin above it
QueryVals == (x_min - x_width) .. (x_max + x_width)

Tables1D == [y_arr : [1 .. TableBins -> TabYVals], z_arr : {<<>>}]
Tables2D == [y_arr : {<<>>}, z_arr : [1 .. TableBins -> [1 .. TableBins -> TabZVals]]]

InBounds(x) == x_min <= x /\ x <= x_max

\* y_arr[i] in C indexing; outside the array the read returns anything
ReadY(t, i, junk) ==
    IF i \in 0 .. (TableBins - 1) THEN t.y_arr[i + 1] ELSE junk

\* z_arr[i][j] in C indexing
ReadZ(t, i, j, junk) ==
    IF i \in 0 .. (TableBins - 1) /\ j \in 0 .. (TableBins - 1)
    THEN t.z_arr[i + 1][j + 1] ELSE junk

\* index of the bin: (int)floor((x - x_min) / x_width)
BinOf(x) == (x - x_min) \div x_width

\* interp_point times x_width
InterpPoint(x) == x - (x_min + x_width * BinOf(x))

EvaluateRGTable1D(x, t, junk) ==
    LET idx == BinOf(x)
        ip == InterpPoint(x)
    IN  (ReadY(t, idx, junk) * (x_width - ip) + ReadY(t, idx + 1, junk) * ip)
            \div x_width

EvaluateRGTable2D(x, y, t, junk) ==
    LET x_idx == BinOf(x)
        y_idx == BinOf(y)
        ipx == InterpPoint(x)
        ipy == InterpPoint(y)
        left_edge == ReadZ(t, x_idx, y_idx, junk) * (x_width - ipy)
                        + ReadZ(t, x_idx, y_idx + 1, junk) * ipy
        right_edge == ReadZ(t, x_idx + 1, y_idx, junk) * (x_width - ipy)
                        + ReadZ(t, x_idx + 1, y_idx + 1, junk) * ipy
    IN  (left_edge * (x_width - ipx) + right_edge * ipx)
            \div (x_width * x_width)

\* a lookup in a 1-D table: returns the interpolated value, throws nothing
Lookup1D ==
    /\ tpc = "ready"
    /\ tbl.z_arr = <<>>
    /\ \E x \in QueryVals, junk \in JunkVals :
        /\ tq' = <<x, 0>>
        /\ tout' = [val |-> EvaluateRGTable1D(x, tbl, junk), err |-> 0]
    /\ tpc' = "done"
    /\ UNCHANGED <<fnVars, ionVars, parVars, haloVars, tsVars, tbl>>

\* a lookup in a 2-D table
Lookup2D ==
    /\ tpc = "ready"
    /\ tbl.y_arr = <<>>
    /\ \E x \in QueryVals, y \in QueryVals, junk \in JunkVals :
        /\ tq' = <<x, y>>
        /\ tout' = [val |-> EvaluateRGTable2D(x, y, tbl, junk), err |-> 0]
    /\ tpc' = "done"
    /\ UNCHANGED <<fnVars, ionVars, parVars, haloVars, tsVars, tbl>>

\* the caller goes on to its next lookup
NextLookup ==
    /\ tpc = "done"
    /\ tpc' = "ready"
    /\ UNCHANGED <<fnVars, ionVars, parVars, haloVars, tsVars, tbl, tq, tout>>

InitTab ==
    /\ IonIdle
    /\ ParIdle
    /\ HaloIdle
    /\ TsIdle
    /\ FnIdle
    /\ tbl \in Tables1D \cup Tables2D
    /\ tq = <<0, 0>>
    /\ tout = [val |-> 0, err |-> 0]
    /\ tpc = "ready"

NextTab ==
    \/ Lookup1D
    \/ Lookup2D
    \/ NextLookup

SpecTab == InitTab /\ [][NextTab]_vars

----
\* ComputeTsBox: ts_main, init_first_Ts and get_Ts_fast

\* number of ComputeTsBox calls of a run
MaxTsSteps == 3

\* global_params.Z_HEAT_MAX
Z_HEAT_MAX == 35

\* the limit above which get_Ts_fast stops integrating Tk
MAX_TK == 50000

\* redshift of the first call of a run
TsFirstZ == {Z_HEAT_MAX, Z_HEAT_MAX + 1}

\* perturbed_field->density of a cell, in units of 1/Scale
DensVals == {-2, 0, 2}

\* what the heating terms times dzp add to Tk in one step, and what
\* dxe_dzp times dzp adds to x_e
TkSteps == {-8, -4, 4}
XeSteps == {-2, 3}

\* what the Wouthuysen-Field iteration may end on
TsRawVals == {-2, 2}

\* Recfast temperature of the gas, decreasing with time
T_RECFAST(z) == 4 * (z - 33)

\* the adiabatic index term, in units of 1/Scale
cT_approx(z) == 2

\* consts->Trad = T_cmb * (1 + zp), in units in which T_cmb is 1
Trad(zp) == 1 + zp

\* the collisional closed form (xCMB + xc)/(xCMB/Trad + xc/Tk), with xCMB
\* = 1 and xc = 1 + delta; a Tk of 0 makes 1/Tk infinite and the quotient 0
CollisionalTs(Tk, trad, delta) ==
    LET xCMB == Scale
        xc == Scale + delta
    IN  ((xCMB + xc) * trad * Tk) \div (xCMB * Tk + xc * trad)

\* get_Ts without Lyman-alpha flux: the collisional closed form
get_Ts(z, delta, TK, xe) == CollisionalTs(TK, Trad(z), delta)

\* init_first_Ts, Tk_box of a cell
InitTkMutant(zp, gdens) == T_RECFAST(zp)
InitTk(zp, gdens) ==
    (T_RECFAST(zp) * (Scale * Scale + cT_approx(zp) * gdens)) \div (Scale * Scale)

\* init_first_Ts, one cell
InitCell(zp, gdens) ==
    [ Tk |-> InitTk(zp, gdens),
      x_e |-> xion_RECFAST(zp),
      Ts |-> get_Ts(zp, gdens, T_RECFAST(zp), xion_RECFAST(zp)) ]

\* curr_delta of the R == 0 loop: a cell at -1 or below is lifted
CurrDelta(d) == IF d <= -Scale THEN -Scale + 1 ELSE d

\* get_Ts_fast, the update of x_e with its clipping
NextXe(prev_xe, dxe) ==
    LET x_e == prev_xe + dxe
    IN  IF x_e > Scale THEN Scale ELSE IF x_e < 0 THEN 0 ELSE x_e

\* get_Ts_fast, the update of Tk: a negative result is replaced by Trad
NextTk(prev_Tk, dTk, zp) ==
    LET Tk == IF prev_Tk < MAX_TK THEN prev_Tk + dTk ELSE prev_Tk
    IN  IF Tk < 0 THEN Trad(zp) ELSE Tk

\* get_Ts_fast, the spin temperature: with Lyman-alpha flux the iteration,
\* whose terms in 1/Tk are not finite for a Tk of 0, else the closed form;
\* a negative result is replaced by its absolute value
NextTs(Tk, delta, zp, wf, raw) ==
    LET TS_fast == IF wf THEN (IF Tk = 0 THEN NonFinite ELSE raw)
                   ELSE CollisionalTs(Tk, Trad(zp), delta)
    IN  IF TS_fast < 0 THEN -TS_fast ELSE TS_fast

\* get_Ts_fast, one cell
get_Ts_fast(zp, delta, rad, in) ==
    LET Tk == NextTk(rad.prev_Tk, in.dTk, zp)
    IN  [ Tk |-> Tk,
          x_e |-> NextXe(rad.prev_xe, in.dxe),
          Ts |-> NextTs(Tk, delta, zp, in.wf, in.raw) ]

TsCellInputs ==
    [dTk : TkSteps, dxe : XeSteps, wf : BOOLEAN, raw : TsRawVals]

\* a call of ComputeTsBox: the first of a run at or above Z_HEAT_MAX, with
\* a previous box that was never computed; a later one a step further down,
\* with the box of the call before as the previous one
\* alloc_global_arrays: the callocs and the flag; allocating over arrays
\* that are live loses them
alloc_global_arrays(mem) ==
    [ TsInterpArraysInitialised |-> TRUE, live |-> TRUE,
      fault |-> mem.fault \/ mem.live ]

\* free_ts_global_arrays: the frees and the flag; freeing arrays that are
\* not live is a double free
free_ts_global_arrays(mem) ==
    [ TsInterpArraysInitialised |-> FALSE, live |-> FALSE,
      fault |-> mem.fault \/ ~mem.live ]

\* a read or write of the module-level arrays
UseArrays(mem) == [mem EXCEPT !.fault = @ \/ ~mem.live]

\* ts_main, up to setup_z_edges: the arrays are allocated unless the flag
\* says they are, and then written
TsEntryMem(mem) ==
    UseArrays(IF ~mem.TsInterpArraysInitialised
              THEN alloc_global_arrays(mem) ELSE mem)

\* the end of ts_main
TsExitMem(mem, cl) == IF cl THEN free_ts_global_arrays(mem) ELSE mem

\* a call of ComputeTsBox: the first of a run, the next snapshot of a run, or
\* the first of a new run in the same process after a call that failed
CallTs ==
    /\ tsPc \in {"off", "returned", "failed"}
    /\ tsPc # "failed" => tsStep < MaxTsSteps
    /\ tsStep' = IF tsPc = "failed" THEN 1 ELSE tsStep + 1
    /\ IF tsStep = 0 \/ tsPc = "failed"
       THEN /\ tsZ' \in TsFirstZ
            /\ tsDens' \in [Cells -> DensVals]
            /\ tsPrev' = NewTsBox
       ELSE /\ tsZ' = tsZ - 1
            /\ tsPrev' = tsBox
            /\ UNCHANGED tsDens
    /\ tsBox' = NewTsBox
    /\ tsTodo' = {}
    /\ tsPc' = "entry"
    /\ tsStatus' = 0
    /\ cleanup' \in BOOLEAN
    /\ tsMem' = TsEntryMem(tsMem)
    /\ UNCHANGED <<fnVars, ionVars, parVars, haloVars, tabVars>>

\* ts_main at or above Z_HEAT_MAX: init_first_Ts fills the box and ts_main
\* returns
InitFirstTs ==
    /\ tsPc = "entry"
    /\ tsZ >= Z_HEAT_MAX
    /\ tsBox' = [ Tk |-> [c \in Cells |-> InitCell(tsZ, tsDens[c]).Tk],
                  x_e |-> [c \in Cells |-> InitCell(tsZ, tsDens[c]).x_e],
                  Ts |-> [c \in Cells |-> InitCell(tsZ, tsDens[c]).Ts] ]
    /\ tsPc' = "returned"
    /\ tsStatus' = 0
    /\ UNCHANGED <<fnVars, ionVars, parVars, haloVars, tabVars, tsStep, tsZ, tsDens, tsPrev, tsTodo, tsMem, cleanup>>

\* ts_main below Z_HEAT_MAX: on to the loop over the cells
EnterTsLoop ==
    /\ tsPc = "entry"
    /\ tsZ < Z_HEAT_MAX
    /\ tsTodo' = Cells
    /\ tsPc' = "cells"
    /\ tsMem' = UseArrays(tsMem)
    /\ UNCHANGED <<fnVars, ionVars, parVars, haloVars, tabVars, tsStep, tsZ, tsDens, tsPrev, tsBox, tsStatus, cleanup>>

\* the loop over the cells, one cell: get_Ts_fast on the previous box
TsCell(c) ==
    /\ tsPc = "cells"
    /\ c \in tsTodo
    /\ \E in \in TsCellInputs :
        LET rad == [prev_Tk |-> tsPrev.Tk[c], prev_xe |-> tsPrev.x_e[c],
                    prev_Ts |-> tsPrev.Ts[c]]
            out == get_Ts_fast(tsZ, CurrDelta(tsDens[c]), rad, in)
        IN  tsBox' = [tsBox EXCEPT !.Tk[c] = out.Tk, !.x_e[c] = out.x_e,
                                   !.Ts[c] = out.Ts]
    /\ tsTodo' = tsTodo \ {c}
    /\ tsMem' = UseArrays(tsMem)
    /\ UNCHANGED <<fnVars, ionVars, parVars, haloVars, tabVars, tsPc, tsStep, tsZ, tsDens, tsPrev, tsStatus, cleanup>>

\* the last loop: a spin temperature that is not finite is an error
CheckTs ==
    /\ tsPc = "cells"
    /\ tsTodo = {}
    /\ IF \E c \in Cells : tsBox.Ts[c] = NonFinite
       THEN /\ tsPc' = "failed"
            /\ tsStatus' = InfinityorNaNError
            /\ UNCHANGED tsMem
       ELSE /\ tsPc' = "returned"
            /\ tsStatus' = 0
            /\ tsMem' = TsExitMem(tsMem, cleanup)
    /\ UNCHANGED <<fnVars, ionVars, parVars, haloVars, tabVars, tsStep, tsZ, tsDens, tsPrev, tsBox, tsTodo, cleanup>>

InitTs ==
    /\ IonIdle
    /\ ParIdle
    /\ HaloIdle
    /\ TabIdle
    /\ TsIdle
    /\ FnIdle

NextTsBox ==
    \/ CallTs
    \/ InitFirstTs
    \/ EnterTsLoop
    \/ \E c \in Cells : TsCell(c)
    \/ CheckTs

SpecTs == InitTs /\ [][NextTsBox]_vars

----
\* Properties of the interpolation tables

\* C12: a lookup whose argument lies outside the declared bounds of the table
\* ends with a table evaluation error
OutOfBoundsIsError ==
    (tpc = "done" /\ (~InBounds(tq[1]) \/ ~InBounds(tq[2])))
        => tout.err = TableEvaluationError

\* a lookup below the lower edge has returned a value that is not the one any
\* entry of the table gives, and no error
OutOfBoundsInterpolated ==
    /\ tpc = "done"
    /\ tbl.z_arr = <<>>
    /\ tq[1] < x_min
    /\ tout.err = 0
    /\ tout.val > 0
    /\ \A i \in 1 .. TableBins : tbl.y_arr[i] = 0

----
\* Properties of ComputeHaloBox without haloes

\* C13: when ComputeHaloBox is done with a catalogue of no haloes, the halo
\* mass and the X-ray emissivity of every cell are zero and the recorded
\* average turnover mass is the one without feedback
NoHalosAllZero ==
    (hphase = "done" /\ hin.n_halos = 0)
        => /\ \A c \in Cells : hgrid[c] = 0 /\ hxray[c] = 0
           /\ hmavg = MturnOf(Log10MturnNofb)

\* the catalogue was empty, the mass grid was zeroed although it held
\* something and the averaged turnover mass is the one without feedback, but
\* the X-ray grid is not zero
NoHalosXrayLeft ==
    /\ hphase = "done"
    /\ hin.n_halos = 0
    /\ hin.USE_MINI_HALOS
    /\ \A c \in Cells : hgrid[c] = 0
    /\ hmavg = MturnOf(Log10MturnNofb)
    /\ \E c \in Cells : hxray[c] > 0

----
\* Properties of ComputeTsBox

TemperaturesPositive ==
    tsPc = "returned"
        => \A c \in Cells : tsBox.Tk[c] > 0 /\ tsBox.Ts[c] > 0

\* a call below Z_HEAT_MAX has returned without error and left a cell with
\* Tk and Ts of zero
ZeroTemperatureReturned ==
    /\ tsPc = "returned"
    /\ tsStatus = 0
    /\ tsZ < Z_HEAT_MAX
    /\ \E c \in Cells : tsBox.Tk[c] = 0 /\ tsBox.Ts[c] = 0

----
\* Properties of the fully neutral early-out

\* C15: when ComputeIonizedBox takes the fully neutral early-out, no R-step
\* is run and no cell is visited, and xH of every cell is 1 - x_e of the
\* cell with the spin temperature, 1 - xion_RECFAST(redshift) without
EarlyOutNeutral ==
    (pc \in {"neutral", "cleanup", "returned"} /\ hist.early)
         => /\ hist.topR = -1 /\ hist.crossed = {}
            /\ \A c \in Cells : hist.writes[c] = 0
            /\ pc = "neutral" \/ \A c \in Cells :
                 box.xH[c] = IF opt.USE_TS_FLUCT THEN Scale - xe_box[c]
                             ELSE Scale - xion_RECFAST(redshift(snap))

\* the early-out was taken with the spin temperature, on a box in which a
\* cell has x_e above zero, and the call returned
EarlyOutWithXe ==
    /\ pc = "returned"
    /\ hist.early
    /\ opt.USE_TS_FLUCT
    /\ \E c \in Cells : xe_box[c] > 0 /\ box.xH[c] = Scale - xe_box[c]

----
\* Properties of the partially ionised cells

\* C16: a cell that met the criterion at no radius of the call and ends it
\* with 0 < xH < 1 has Gamma12 = 0 and MFP = 0, and inside the R-loop a
\* cell is given an xH other than 0 at the radius of index 0 only
PartialCellsAtLastStep ==
    /\ [](pc = "returned"
            => \A c \in Cells :
                 (c \notin hist.crossed /\ 0 < box.xH[c] /\ box.xH[c] < Scale)
                    => box.Gamma12[c] = 0 /\ box.MFP[c] = 0)
    /\ [][pc = "loop"
            => \A c \in Cells :
                 (box'.xH[c] # box.xH[c] /\ box'.xH[c] # 0) => R_ct = 0]_vars

\* a call that ran more than one R-step has returned with a cell that never
\* met the criterion and is partially ionised, next to one that did
PartialCellReturned ==
    /\ pc = "returned"
    /\ hist.topR >= 1
    /\ hist.crossed # {}
    /\ \E c \in Cells :
         /\ c \notin hist.crossed
         /\ 0 < box.xH[c] /\ box.xH[c] < Scale
         /\ box.Gamma12[c] = 0 /\ box.MFP[c] = 0

----
\* Properties of the reionisation redshift

----
\* Properties of the Value error

\* C18: when ComputeIonizedBox has returned the Value error, no grid of the
\* output box has been written
ValueErrorAtEntry ==
    (pc = "failed" /\ status = ValueError) => box = NewBox

\* the Value error of an unknown bubble algorithm: the output box is as
\* allocated
UnknownAlgorithmAtEntry ==
    /\ pc = "failed"
    /\ status = ValueError
    /\ opt.FIND_BUBBLE_ALGORITHM = 3
    /\ box = NewBox

----
\* Properties of the order of the cells within an R-step

\* what cell c reads at radius index i from the fixed input grids of the
\* first snapshot, without the halo field
FixedInputs(c, i) ==
    [ fc |-> Filtered(src.fc, c, i),
      xe |-> IF opt.USE_TS_FLUCT THEN src.xe ELSE 0,
      recf |-> 0, sfr |-> 0, ratio |-> src.ratio, draw |-> 1 ]

\* the box after the cells of S have been visited in ascending order at
\* radius index i, starting from box b
RECURSIVE AscendingStep(_, _, _)
AscendingStep(b, S, i) ==
    IF S = {} THEN b
    ELSE LET c == CHOOSE d \in S : \A e \in S : d <= e
         IN  AscendingStep(CellUpdate(opt, snap, i, prev, b, c, FixedInputs(c, i)),
                           S \ {c}, i)

\* the largest R-step of the first snapshot is over, and nothing in it was
\* drawn at random
TopStepDone ==
    /\ snap = 1
    /\ pc = "loop"
    /\ todo = {}
    /\ R_ct = hist.topR
    /\ src.fixed
    /\ ~opt.USE_HALO_FIELD
    /\ opt.NO_RNG \/ R_ct > 0

\* C20: whatever the order in which the cells of an R-step were visited, the
\* box after the step is the one the ascending order gives
StepOrderIndependent ==
    TopStepDone => box = AscendingStep(InitOutputBox(opt, NewBox), Cells, R_ct)

\* the centre method with recombinations: every cell met the criterion in
\* the step and the box is the one of the ascending order
CentreStepAgrees ==
    /\ TopStepDone
    /\ opt.FIND_BUBBLE_ALGORITHM = 2
    /\ opt.INHOMO_RECO
    /\ hist.crossed = Cells
    /\ \A c \in Cells : box.Gamma12[c] > 0
    /\ box = AscendingStep(InitOutputBox(opt, NewBox), Cells, R_ct)

----
\* Properties of the end of the R-loop

\* C21, as stated: when the R-loop of a call is over, its step of radius
\* index 0 has been run
LoopReachesCellScale ==
    pc = "post" => hist.lastR = 0

\* C21, amended: the R-loop runs the radius indices downwards one by one and
\* ends after the step of index 0 or at the first index whose mass is below
\* M_min; in the first case every cell that is not ionised has been given
\* its partial xH, in the second none has
LoopEndsAtBreakOrCellScale ==
    pc = "post" =>
        \/ /\ hist.lastR = 0
           /\ R_ct = 0
           /\ \A c \in Cells : box.xH[c] > 0 => c \in hist.partial
        \/ /\ hist.lastR # 0
           /\ R_ct = (IF hist.lastR = -1 THEN NRadii ELSE hist.lastR) - 1
           /\ hist.partial = {}
           /\ \A c \in Cells : box.xH[c] \in {0, Scale}

\* the loop has stopped at index 0 after the step of index 1, leaving a cell
\* untouched next to an ionised one
LoopBrokeBeforeCellScale ==
    /\ pc = "post"
    /\ hist.lastR = 1
    /\ R_ct = 0
    /\ \E c, d \in Cells : box.xH[c] = Scale /\ box.xH[d] = 0

----
\* Properties of the conditional tables of the R-loop

\* C22, as stated: between two iterations of the R-loop the tables built for
\* the iteration before have been freed
TablesFreedEachStep ==
    (pc = "loop" /\ todo = {}) => "cond_tables" \notin heap

\* C22, amended: without the halo field every iteration of the R-loop builds
\* the tables for its own radius and its cells read those tables only; the
\* tables stay allocated from the first iteration until the frees at the end
\* of the call, and with the halo field none is ever built
TablesFreedAtEnd ==
    /\ \A r \in hist.readR : r[1] = r[2]
    /\ (pc \in {"loop", "post", "recomb", "cleanup"} /\ ~opt.USE_HALO_FIELD)
          => (("cond_tables" \in heap) <=> hist.lastR >= 0)
    /\ (pc \in {"loop", "post"} /\ ~opt.USE_HALO_FIELD) => hist.tabR = hist.lastR
    /\ pc = "returned" => "cond_tables" \notin heap
    /\ opt.USE_HALO_FIELD => "cond_tables" \notin heap /\ hist.tabR = -1

\* the second iteration of a call is running on its own tables while the
\* allocation dates from the first
TablesLiveAcrossSteps ==
    /\ pc = "loop"
    /\ todo # {} /\ todo # Cells
    /\ hist.topR = 1
    /\ R_ct = 0
    /\ hist.tabR = 0
    /\ <<1, 1>> \in hist.readR /\ <<0, 0>> \in hist.readR
    /\ "cond_tables" \in heap

----
\* Properties of the module-level arrays of the spin temperature

\* C23, as stated: across the calls of ComputeTsBox the arrays are allocated
\* exactly when TsInterpArraysInitialised is set, are never allocated over,
\* freed twice or used when freed, and a call with cleanup set ends with
\* them freed
TsArraysFreedOnCleanup ==
    /\ tsMem.live = tsMem.TsInterpArraysInitialised
    /\ ~tsMem.fault
    /\ (tsPc \in {"returned", "failed"} /\ cleanup) => ~tsMem.live

\* the flag follows the arrays, nothing is allocated over, freed twice or
\* used when freed, and the arrays are live at the end of a call unless it
\* went through the loop over the cells without error with cleanup set
TsArraysFollowFlag ==
    /\ tsMem.live = tsMem.TsInterpArraysInitialised
    /\ ~tsMem.fault
    /\ tsPc \in {"entry", "cells", "failed"} => tsMem.live
    /\ tsPc = "returned" =>
          (tsMem.live <=> (~cleanup \/ tsZ >= Z_HEAT_MAX))

\* a call at Z_HEAT_MAX with cleanup set has returned with the arrays
\* allocated
TsArraysKeptAboveZHeatMax ==
    /\ tsPc = "returned"
    /\ tsStatus = 0
    /\ cleanup
    /\ tsZ >= Z_HEAT_MAX
    /\ tsMem.live

\* a call with cleanup set has failed with the arrays allocated
TsArraysKeptOnFailure ==
    /\ tsPc = "failed"
    /\ cleanup
    /\ tsMem.live
    /\ tsMem.TsInterpArraysInitialised

-----------------------------------------------------------------------------
(* The stand-in previous box of the first snapshot *)

\* the buffers setup_first_z_prevbox allocates under the flags o
setup_first_z_prevbox(o) ==
    {"z_re_box"}
        \cup (IF o.INHOMO_RECO THEN {"dNrec_box"} ELSE {})
        \cup (IF o.USE_MINI_HALOS
              THEN {"Gamma12_box", "Fcoll", "Fcoll_MINI", "density"} ELSE {})

\* the buffers of the previous box the end of ComputeIonizedBox frees
FreedPrevbox(o) ==
    {"z_re_box"}
        \cup (IF o.USE_MASS_DEPENDENT_ZETA /\ o.USE_MINI_HALOS
              THEN {"Gamma12_box", "dNrec_box", "Fcoll", "Fcoll_MINI"}
              ELSE {})

PrevboxInputs ==
    [ f : {"prevbox"}, prev_redshift : {0, ZFirst + 1},
      INHOMO_RECO : BOOLEAN, USE_MINI_HALOS : BOOLEAN,
      USE_MASS_DEPENDENT_ZETA : BOOLEAN ]

\* ComputeIonizedBox, if (prev_redshift < 1) setup_first_z_prevbox(...)
SetupPrevbox ==
    /\ fnPc = "called"
    /\ fnIn.f = "prevbox"
    /\ fnOut' = [ f |-> "prevbox",
                  allocated |-> IF fnIn.prev_redshift < 1
                                THEN setup_first_z_prevbox(fnIn) ELSE {},
                  freed |-> {}, unallocated_freed |-> {} ]
    /\ fnPc' = "run"
    /\ UNCHANGED <<ionVars, parVars, haloVars, tabVars, tsVars, fnIn>>

\* ComputeIonizedBox, the frees of the previous box before return(0)
FreePrevbox ==
    /\ fnPc = "run"
    /\ fnIn.f = "prevbox"
    /\ LET fr == IF fnIn.prev_redshift < 1 THEN FreedPrevbox(fnIn) ELSE {}
       IN  fnOut' = [fnOut EXCEPT
                       !.allocated = @ \ fr,
                       !.freed = fr \cap fnOut.allocated,
                       !.unallocated_freed = fr \ fnOut.allocated]
    /\ fnPc' = "done"
    /\ UNCHANGED <<ionVars, parVars, haloVars, tabVars, tsVars, fnIn>>

-----------------------------------------------------------------------------
(* ts_main with USE_HALO_FIELD: the loop over the shells, for one cell *)

\* NUM_FILTER_STEPS_FOR_Ts
NShells == 2
Shells == 0 .. (NShells - 1)

\* values of the filtered star-formation rates of one cell
ShellSfrVals == 0 .. 2

\* the index of the grid of shell R_ct
R_index(o, k) == IF o.MINIMIZE_MEMORY THEN 0 ELSE k

\* the star formation rates one cell reads at shell k from the XraySourceBox
\* (z_edge_factor is 1)
ShellSfrTerms(o, k) ==
    [ sfr_term |-> o.filtered_sfr[R_index(o, k)],
      sfr_term_mini |-> IF o.USE_MINI_HALOS THEN o.filtered_sfr_mini[k]
                        ELSE 0 ]

\* UpdateXraySourceBox has filled filtered_sfr and filtered_sfr_mini of every
\* shell, each at the index of its shell
ShellInputs ==
    [ f : {"shells"}, MINIMIZE_MEMORY : BOOLEAN, USE_MINI_HALOS : BOOLEAN,
      filtered_sfr : [Shells -> ShellSfrVals],
      filtered_sfr_mini : [Shells -> ShellSfrVals] ]

\* before the loop: the boxes of the rates are zero
BeginShells ==
    /\ fnPc = "called"
    /\ fnIn.f = "shells"
    /\ fnOut' = [ f |-> "shells", R_ct |-> NShells, dstarlya_dt_box |-> 0,
                  terms |-> [k \in Shells |-> <<-1, -1>>] ]
    /\ fnPc' = "run"
    /\ UNCHANGED <<ionVars, parVars, haloVars, tabVars, tsVars, fnIn>>

\* for(R_ct=NUM_FILTER_STEPS_FOR_Ts; R_ct--;): one shell, the prefactors
\* being 1
ShellStep ==
    /\ fnPc = "run"
    /\ fnIn.f = "shells"
    /\ IF fnOut.R_ct = 0
       THEN /\ fnPc' = "done"
            /\ UNCHANGED fnOut
       ELSE LET k == fnOut.R_ct - 1
                t == ShellSfrTerms(fnIn, k)
            IN  /\ fnOut' = [fnOut EXCEPT
                               !.R_ct = k,
                               !.dstarlya_dt_box = @ + t.sfr_term + t.sfr_term_mini,
                               !.terms[k] = <<t.sfr_term, t.sfr_term_mini>>]
                /\ UNCHANGED fnPc
    /\ UNCHANGED <<ionVars, parVars, haloVars, tabVars, tsVars, fnIn>>

-----------------------------------------------------------------------------
(* calculate_fcoll_grid: the value stored for one cell at one radius *)

\* values of EvaluateNion_Conditional and EvaluateNion_Conditional_MINI: the
\* splines can overshoot on both sides
SplinedVals == {-1, 0, 1, 2, Scale, Scale + 2}

\* box->Fcoll of a cell, from previous_ionize_box->Fcoll and the two values
\* of the spline
StoredFcoll(o, before, Splined_Fcoll, prev_Splined_Fcoll) ==
    IF o.USE_MINI_HALOS /\ ~o.USE_HALO_FIELD
    THEN FcollOf(before, Splined_Fcoll, prev_Splined_Fcoll)
    ELSE Splined_Fcoll

FcollInputs ==
    [ f : {"fcoll"}, USE_MINI_HALOS : BOOLEAN, USE_HALO_FIELD : {FALSE} ]

\* calculate_fcoll_grid for one cell, once per snapshot: the first snapshot
\* has the zeroed stand-in as previous box, a later one the box before it
CalcFcoll ==
    /\ fnPc \in {"called", "run"}
    /\ fnIn.f = "fcoll"
    /\ LET before == IF fnPc = "called"
                     THEN [ Fcoll |-> 0, Fcoll_MINI |-> 0, snap |-> 0 ]
                     ELSE fnOut
           \* the previous values of the spline are evaluated only when the
           \* previous box has sources
           PrevVals == IF before.Fcoll + before.Fcoll_MINI > 0
                       THEN SplinedVals ELSE {0}
       IN  /\ \E a, am \in SplinedVals : \E b, bm \in PrevVals :
                fnOut' = [ f |-> "fcoll",
                           Fcoll |-> StoredFcoll(fnIn, before.Fcoll, a, b),
                           Fcoll_MINI |->
                               IF fnIn.USE_MINI_HALOS
                               THEN StoredFcoll(fnIn, before.Fcoll_MINI, am, bm)
                               ELSE 0,
                           snap |-> before.snap + 1 ]
           /\ fnPc' = IF before.snap + 1 > MaxSnap THEN "done" ELSE "run"
    /\ UNCHANGED <<ionVars, parVars, haloVars, tabVars, tsVars, fnIn>>

-----------------------------------------------------------------------------
(* clip_and_get_extrema *)

\* values of a filtered grid, in units of 1/Scale
GridVals == {0 - 2 * Scale, 0 - Scale, 0, Scale, 3 * Scale}

ClipInputs ==
    [ f : {"clip"}, grid : [Cells -> GridVals], lower_limit : {0 - Scale, 0},
      upper_limit : {Scale, 2 * Scale} ]

\* fmaxf(fmin(curr,upper_limit),lower_limit)
Clip(curr, lower_limit, upper_limit) ==
    LET m == IF curr < upper_limit THEN curr ELSE upper_limit
    IN  IF m > lower_limit THEN m ELSE lower_limit

\* the first cell of the grid
FirstCell == CHOOSE c \in Cells : \A d \in Cells : c <= d

\* before the loop: both buffers are set to the first cell
ClipBegin ==
    /\ fnPc = "called"
    /\ fnIn.f = "clip"
    /\ fnOut' = [ f |-> "clip", grid |-> fnIn.grid, todo |-> Cells,
                  min_buf |-> fnIn.grid[FirstCell],
                  max_buf |-> fnIn.grid[FirstCell] ]
    /\ fnPc' = "run"
    /\ UNCHANGED <<ionVars, parVars, haloVars, tabVars, tsVars, fnIn>>

\* the loop body for one cell, the cells in the order the threads take
\* them; after the last cell the buffers are returned
ClipCell(c) ==
    /\ fnPc = "run"
    /\ fnIn.f = "clip"
    /\ c \in fnOut.todo
    /\ LET curr == fnOut.grid[c]
       IN  fnOut' = [fnOut EXCEPT
                       !.grid[c] = Clip(curr, fnIn.lower_limit, fnIn.upper_limit),
                       !.min_buf = IF curr < @ THEN curr ELSE @,
                       !.max_buf = IF curr > @ THEN curr ELSE @,
                       !.todo = @ \ {c}]
    /\ fnPc' = IF fnOut.todo = {c} THEN "done" ELSE "run"
    /\ UNCHANGED <<ionVars, parVars, haloVars, tabVars, tsVars, fnIn>>

-----------------------------------------------------------------------------
(* find_ionised_regions: the density contrast of one cell *)

\* a density contrast v / Scale + eps * FRACT_FLOAT_ERR
DensOf(v) == [v |-> v, eps |-> 0]

\* fmaxf(d, -1. + FRACT_FLOAT_ERR), the clip of calculate_fcoll_grid
FloorDensity(d) ==
    IF d.v <= 0 - Scale THEN [v |-> 0 - Scale, eps |-> 1] ELSE d

\* 1 + d > 0
OnePlusPositive(d) == d.v > 0 - Scale \/ (d.v = 0 - Scale /\ d.eps > 0)

\* curr_dens of a cell
curr_dens(in) ==
    IF in.CELL_RECOMB
    THEN DensOf((in.density * in.photoncons_adjustment_factor) \div Scale)
    ELSE FloorDensity(DensOf(in.deltax_filtered))

\* the places where the computation of a cell multiplies or divides by
\* 1 + curr_dens
DensityUses(in) ==
    (IF in.USE_HALO_FIELD THEN {"curr_fcoll"} ELSE {})
        \cup (IF in.INHOMO_RECO THEN {"rec"} ELSE {})
        \cup (IF in.ionised /\ in.INHOMO_RECO /\ in.USE_HALO_FIELD
              THEN {"Gamma12_box"} ELSE {})

\* perturbed_field->density lies above -1; the filtered grid can undershoot;
\* photoncons_adjustment_factor is 1 without photon conservation and a ratio
\* of growth factors with it
DensityInputs ==
    [ f : {"dens"}, CELL_RECOMB : BOOLEAN, USE_HALO_FIELD : BOOLEAN,
      INHOMO_RECO : BOOLEAN, ionised : BOOLEAN,
      density : {0 - Scale \div 2, 0, Scale},
      deltax_filtered : {0 - 2 * Scale, 0 - Scale, 0, Scale},
      photoncons_adjustment_factor : {Scale, 2 * Scale} ]

\* the loop body of find_ionised_regions for one cell, as far as the density
\* goes
CellDensity ==
    /\ fnPc = "called"
    /\ fnIn.f = "dens"
    /\ fnOut' = [ f |-> "dens", curr_dens |-> curr_dens(fnIn),
                  uses |-> DensityUses(fnIn) ]
    /\ fnPc' = "done"
    /\ UNCHANGED <<ionVars, parVars, haloVars, tabVars, tsVars, fnIn>>

-----------------------------------------------------------------------------
(* find_ionised_regions: the criterion for one cell at one radius *)

CriterionInputs ==
    [ f : {"criterion"}, USE_HALO_FIELD : BOOLEAN, curr_fcoll : FcVals,
      xHII_from_xrays : XeVals, rec : {0, Scale}, xH : {0, Scale} ]

\* the test "check if fully ionized!" and, with the centre method, the flag
CheckCriterion ==
    /\ fnPc = "called"
    /\ fnIn.f = "criterion"
    /\ LET ion == Ionised(fnIn, fnIn.curr_fcoll, fnIn.xHII_from_xrays, fnIn.rec)
       IN  fnOut' = [ f |-> "criterion", ionised |-> ion,
                      xH |-> IF ion THEN 0 ELSE fnIn.xH ]
    /\ fnPc' = "done"
    /\ UNCHANGED <<ionVars, parVars, haloVars, tabVars, tsVars, fnIn>>

-----------------------------------------------------------------------------
(* setup_z_edges: the radii of the shells *)

RECURSIVE IntPow(_, _)
IntPow(b, e) == IF e = 0 THEN 1 ELSE b * IntPow(b, e - 1)

\* pow(x, 1/n), for the x that are n-th powers of integers
NthRoot(x, n) == CHOOSE r \in 0 .. x : IntPow(r, n) <= x /\ x < IntPow(r + 1, n)

\* R_factor = pow(R_XLy_MAX/R, 1/NUM_FILTER_STEPS_FOR_Ts)
R_factor(R, R_XLy_MAX) == NthRoot(R_XLy_MAX \div R, NShells)

\* cell sizes L_FACTOR*BOX_LEN/HII_DIM and values of R_XLy_MAX whose ratio
\* is the NShells-th power of an integer
ZEdgesInputs ==
    { i \in [ f : {"z_edges"}, R : 1 .. 3,
              R_XLy_MAX : 1 .. (3 * IntPow(3, NShells)) ] :
        \E q \in 1 .. 3 : i.R_XLy_MAX = i.R * IntPow(q, NShells) }

\* setup_z_edges, before the loop
ZEdgesBegin ==
    /\ fnPc = "called"
    /\ fnIn.f = "z_edges"
    /\ fnOut' = [ f |-> "z_edges", R_ct |-> 0, R |-> fnIn.R,
                  R_factor |-> R_factor(fnIn.R, fnIn.R_XLy_MAX),
                  R_values |-> [k \in Shells |-> 0] ]
    /\ fnPc' = "run"
    /\ UNCHANGED <<ionVars, parVars, haloVars, tabVars, tsVars, fnIn>>

\* setup_z_edges, one iteration of the loop: R_values[R_ct] = R at its
\* start, R *= R_factor at its end
ZEdgesStep ==
    /\ fnPc = "run"
    /\ fnIn.f = "z_edges"
    /\ IF fnOut.R_ct < NShells
       THEN /\ fnOut' = [fnOut EXCEPT !.R_values[fnOut.R_ct] = fnOut.R,
                                      !.R = @ * fnOut.R_factor,
                                      !.R_ct = @ + 1]
            /\ UNCHANGED fnPc
       ELSE /\ fnPc' = "done"
            /\ UNCHANGED fnOut
    /\ UNCHANGED <<ionVars, parVars, haloVars, tabVars, tsVars, fnIn>>

-----------------------------------------------------------------------------
(* The single functions as one specification *)

InitFn ==
    /\ IonIdle
    /\ ParIdle
    /\ HaloIdle
    /\ TabIdle
    /\ TsIdle
    /\ fnPc = "called"
    /\ fnOut = [f |-> "none"]
    /\ \/ fnIn \in PrevboxInputs
       \/ fnIn \in ShellInputs
       \/ fnIn \in FcollInputs
       \/ fnIn \in ClipInputs
       \/ fnIn \in DensityInputs
       \/ fnIn \in CriterionInputs
       \/ fnIn \in ZEdgesInputs

NextFn ==
    \/ SetupPrevbox
    \/ FreePrevbox
    \/ BeginShells
    \/ ShellStep
    \/ CalcFcoll
    \/ ClipBegin
    \/ \E c \in Cells : ClipCell(c)
    \/ CellDensity
    \/ CheckCriterion
    \/ ZEdgesBegin
    \/ ZEdgesStep

SpecFn == InitFn /\ [][NextFn]_vars

----
\* Properties of the stand-in previous box

\* C24: on the first snapshot, whatever the flags, the buffers allocated for
\* the stand-in previous box have all been freed when the call returns and
\* no buffer that was not allocated has been freed
PrevboxFreedOnce ==
    (fnPc = "done" /\ fnIn.f = "prevbox" /\ fnIn.prev_redshift < 1) =>
        /\ fnOut.allocated = {}
        /\ fnOut.unallocated_freed = {}

\* a first snapshot with INHOMO_RECO and without minihaloes has returned
\* with dNrec_box of the stand-in box allocated
PrevboxDNrecLeft ==
    /\ fnPc = "done"
    /\ fnIn.f = "prevbox"
    /\ fnIn.prev_redshift < 1
    /\ fnIn.INHOMO_RECO /\ ~fnIn.USE_MINI_HALOS
    /\ fnOut.allocated = {"dNrec_box"}
    /\ fnOut.freed = {"z_re_box"}

----
\* Properties of the loop over the shells with the halo field

\* C25: at every shell k the atomic and the minihalo term of a cell are the
\* values of the XraySourceBox grids filtered for shell k, with and without
\* MINIMIZE_MEMORY
ShellReadsOwnGrid ==
    (fnIn.f = "shells" /\ fnPc \in {"run", "done"}) =>
        \A k \in Shells : k >= fnOut.R_ct =>
            /\ fnOut.terms[k][1] = fnIn.filtered_sfr[k]
            /\ fnIn.USE_MINI_HALOS =>
                  fnOut.terms[k][2] = fnIn.filtered_sfr_mini[k]

\* with MINIMIZE_MEMORY the loop has ended after the outer shell took the
\* atomic rate of shell 0 and the minihalo rate of its own shell
OuterShellReadShellZero ==
    /\ fnPc = "done"
    /\ fnIn.f = "shells"
    /\ fnIn.MINIMIZE_MEMORY /\ fnIn.USE_MINI_HALOS
    /\ fnIn.filtered_sfr[NShells - 1] # fnIn.filtered_sfr[0]
    /\ fnIn.filtered_sfr_mini[NShells - 1] # fnIn.filtered_sfr_mini[0]
    /\ fnOut.terms[NShells - 1] =
          <<fnIn.filtered_sfr[0], fnIn.filtered_sfr_mini[NShells - 1]>>

----
\* Properties of the stored collapsed fractions

\* C26: with minihaloes and without the halo field the collapsed fractions
\* stored for a cell, atomic and minihalo, lie between 1e-40 and 1 (1e-40
\* is 0 in units of 1/Scale)
StoredFcollClamped ==
    (fnIn.f = "fcoll" /\ fnPc \in {"run", "done"} /\ fnIn.USE_MINI_HALOS
        /\ ~fnIn.USE_HALO_FIELD) =>
        /\ 0 <= fnOut.Fcoll /\ fnOut.Fcoll <= Scale
        /\ 0 <= fnOut.Fcoll_MINI /\ fnOut.Fcoll_MINI <= Scale

\* at a later snapshot a negative collapsed fraction has been stored
StoredFcollNegative ==
    /\ fnIn.f = "fcoll"
    /\ fnPc \in {"run", "done"}
    /\ fnIn.USE_MINI_HALOS /\ ~fnIn.USE_HALO_FIELD
    /\ fnOut.snap > 1
    /\ fnOut.Fcoll < 0

----
\* Properties of clip_and_get_extrema

\* the grid clip_and_get_extrema has left lies within the limits
ClippedInPlace ==
    (fnIn.f = "clip" /\ fnPc = "done") =>
        \A c \in Cells : /\ fnIn.lower_limit <= fnOut.grid[c]
                         /\ fnOut.grid[c] <= fnIn.upper_limit
                         /\ fnOut.grid[c] = Clip(fnIn.grid[c], fnIn.lower_limit,
                                                 fnIn.upper_limit)

\* C28: clip_and_get_extrema leaves every cell within the limits and returns
\* the minimum and the maximum of the clipped grid, which lie within the
\* limits
ClipExtremaInRange ==
    (fnIn.f = "clip" /\ fnPc = "done") =>
        /\ \A c \in Cells : /\ fnIn.lower_limit <= fnOut.grid[c]
                            /\ fnOut.grid[c] <= fnIn.upper_limit
        /\ \E c \in Cells : fnOut.min_buf = fnOut.grid[c]
        /\ \E c \in Cells : fnOut.max_buf = fnOut.grid[c]
        /\ \A c \in Cells : /\ fnOut.min_buf <= fnOut.grid[c]
                            /\ fnOut.grid[c] <= fnOut.max_buf
        /\ fnIn.lower_limit <= fnOut.min_buf
        /\ fnOut.max_buf <= fnIn.upper_limit

\* a grid with a cell below the lower limit has been clipped and the
\* minimum returned is the value of that cell before the clipping
ExtremaBeforeClipping ==
    /\ fnIn.f = "clip"
    /\ fnPc = "done"
    /\ \E c \in Cells : /\ fnIn.grid[c] < fnIn.lower_limit
                        /\ fnOut.grid[c] = fnIn.lower_limit
                        /\ fnOut.min_buf = fnIn.grid[c]
    /\ fnOut.min_buf < fnIn.lower_limit

----
\* Properties of the density contrast of a cell

\* C27: the density contrast the computation of a cell uses is at least
\* -1 + FRACT_FLOAT_ERR, so 1 + curr_dens is positive wherever it multiplies
\* or divides
DensityAboveMinusOne ==
    (fnIn.f = "dens" /\ fnPc = "done") => OnePlusPositive(fnOut.curr_dens)

\* without CELL_RECOMB the density contrast of a cell is the filtered one
\* after its clip, and 1 + curr_dens is positive
FilteredDensityAboveMinusOne ==
    (fnIn.f = "dens" /\ fnPc = "done" /\ ~fnIn.CELL_RECOMB) =>
        OnePlusPositive(fnOut.curr_dens)

\* with CELL_RECOMB the recombinations of a cell have been divided by a
\* 1 + curr_dens of zero
RecDividedByZero ==
    /\ fnIn.f = "dens"
    /\ fnPc = "done"
    /\ fnIn.CELL_RECOMB /\ fnIn.INHOMO_RECO
    /\ fnIn.density > 0 - Scale
    /\ fnOut.curr_dens = DensOf(0 - Scale)
    /\ "rec" \in fnOut.uses

----
\* Properties of the ionisation criterion

\* C29: a cell with xH > 0 whose sources reach or exceed
\* (1 - xHII_from_xrays) * (1 + rec) at a radius is flagged as ionised at
\* that radius, equality included
EqualityIonises ==
    (fnIn.f = "criterion" /\ fnPc = "done" /\ fnIn.xH > 0
        /\ fnIn.curr_fcoll * ion_eff_factor(fnIn) * Scale
              >= (Scale - fnIn.xHII_from_xrays) * (Scale + fnIn.rec)) =>
        fnOut.ionised /\ fnOut.xH = 0

\* a cell whose sources exceed (1 - xHII_from_xrays) * (1 + rec) is flagged
SourcesAboveIonise ==
    (fnIn.f = "criterion" /\ fnPc = "done"
        /\ fnIn.curr_fcoll * ion_eff_factor(fnIn) * Scale
              > (Scale - fnIn.xHII_from_xrays) * (Scale + fnIn.rec)) =>
        fnOut.ionised /\ fnOut.xH = 0

\* a neutral cell whose sources equal (1 - xHII_from_xrays) * (1 + rec) has
\* been left neutral
EqualityLeftNeutral ==
    /\ fnIn.f = "criterion"
    /\ fnPc = "done"
    /\ fnIn.xH > 0
    /\ fnIn.curr_fcoll * ion_eff_factor(fnIn) * Scale
          = (Scale - fnIn.xHII_from_xrays) * (Scale + fnIn.rec)
    /\ ~fnOut.ionised
    /\ fnOut.xH = fnIn.xH

----
\* Properties of the radii of the shells

\* the radii of the shells start at the cell scale and grow by one factor
\* from shell to shell
ShellRadiiGeometric ==
    (fnIn.f = "z_edges" /\ fnPc = "done") =>
        /\ fnOut.R_values[0] = fnIn.R
        /\ \A k \in Shells : k + 1 \in Shells =>
              fnOut.R_values[k + 1] = fnOut.R_values[k] * fnOut.R_factor

\* C30: the radii of the shells start at the cell scale R_0, grow from shell
\* to shell by the factor (R_XLy_MAX / R_0)^(1 / (NShells - 1)), and the
\* outermost is R_XLy_MAX
OuterShellAtRXLyMax ==
    (fnIn.f = "z_edges" /\ fnPc = "done") =>
        /\ fnOut.R_values[0] = fnIn.R
        /\ \A k \in Shells : k + 1 \in Shells =>
              IntPow(fnOut.R_values[k + 1], NShells - 1) * fnIn.R
                  = IntPow(fnOut.R_values[k], NShells - 1) * fnIn.R_XLy_MAX
        /\ fnOut.R_values[NShells - 1] = fnIn.R_XLy_MAX

\* the radii have been set for an R_XLy_MAX above the cell scale and the
\* outermost is one factor short of R_XLy_MAX
OuterShellShort ==
    /\ fnIn.f = "z_edges"
    /\ fnPc = "done"
    /\ fnIn.R_XLy_MAX > fnIn.R
    /\ fnOut.R_factor > 1
    /\ fnOut.R_values[NShells - 1] * fnOut.R_factor = fnIn.R_XLy_MAX
    /\ fnOut.R_values[NShells - 1] < fnIn.R_XLy_MAX
====
